---- MODULE Spec2Model ----
(***************************************************************************)
(* Model of src/log_parser.py: the line grammar (LogParser.LOG_PATTERN and *)
(* parse_line), the accumulator (process_entry), the summary               *)
(* (get_top_ips, save_results) and the command-line driver (main and the   *)
(* __main__ guard).                                                        *)
(*                                                                         *)
(* A line of text is a sequence of one-character strings; captured groups  *)
(* are joined back into strings.  A dict is the sequence of its            *)
(* <<key, value>> items in insertion order.  An optional value is a        *)
(* sequence of length at most one (<<>> is None).                          *)
(***************************************************************************)
EXTENDS Integers, Sequences, FiniteSets, TLC

VARIABLES
    analyzer,     \* the LogParser instance: its four attributes
    args,         \* argparse result: [input, output]
    pc,           \* position of the run inside main / the interpreter
    listed,       \* file names os.listdir has yielded so far
    cur,          \* path of the file analyze_file has open (<<>> if none)
    nread,        \* lines read so far from the open file
    line,         \* the line analyze_file read last
    entry,        \* the value parse_line returned for it
    stdout,       \* what print() has written
    written,      \* the files written by save_results: [path, result]
    main_ret,     \* the value main returned (<<>> is None)
    exit_code,    \* the interpreter's exit status (<<>> while running)
    matched,      \* history: lines read so far that match LOG_PATTERN
    analyzed,     \* history: paths handed to analyze_file
    processed,    \* history: entries handed to process_entry by a direct caller
    ret           \* the value of the last direct get_top_ips call, with its n

vars == <<analyzer, args, pc, listed, cur, nread, line, entry, stdout, written,
          main_ret, exit_code, matched, analyzed, processed, ret>>

----------------------------------------------------------------------------
(* Generic helpers *)

Min2(a, b) == IF a <= b THEN a ELSE b
Max2(a, b) == IF a >= b THEN a ELSE b
SetMin(S) == CHOOSE x \in S : \A y \in S : x <= y
SetMax(S) == CHOOSE x \in S : \A y \in S : x >= y

RECURSIVE Join(_)
\* ''.join(chars): the string of a sequence of characters
Join(chars) == IF chars = <<>> THEN "" ELSE Head(chars) \o Join(Tail(chars))

\* s[a:b] as a string, for 1-based a and exclusive end b
Text(s, a, b) == Join(SubSeq(s, a, b - 1))

----------------------------------------------------------------------------
(* The line grammar: LOG_PATTERN, matched the way re.search matches it.     *)
(* A position p in 1..Len(s)+1 is the index of the next character to read.  *)

At(s, k) == IF k \in 1..Len(s) THEN s[k] ELSE ""

IsDigit(c) == c \in {"0", "1", "2", "3", "4", "5", "6", "7", "8", "9"}   \* \d
IsSpace(c) == c \in {" ", "\t", "\n", "\r", "\f"}                         \* \s
IsDot(c) == c # "\n" /\ c # ""                                            \* .
IsNonSpace(c) == c # "" /\ ~IsSpace(c)                                    \* \S

Digits(s, a, b) == \A k \in a..(b - 1) : IsDigit(At(s, k))
Dots(s, a, b) == \A k \in a..(b - 1) : IsDot(At(s, k))
NonSpaces(s, a, b) == \A k \in a..(b - 1) : IsNonSpace(At(s, k))

\* a variant of AtEnd that takes `$` for the very end of the string only
AtEndOnly(s, p) == p = Len(s) + 1

\* `$` without re.MULTILINE: at the end, or just before a final newline
AtEnd(s, p) == p = Len(s) + 1 \/ (p = Len(s) /\ s[p] = "\n")

\* the alternation GET|POST|PUT|DELETE|HEAD|OPTIONS, in its order
METHODS == << <<"G", "E", "T">>, <<"P", "O", "S", "T">>, <<"P", "U", "T">>,
              <<"D", "E", "L", "E", "T", "E">>, <<"H", "E", "A", "D">>,
              <<"O", "P", "T", "I", "O", "N", "S">> >>

\* (?P<duration>\d+)$ from p: the ends e at which the whole pattern is matched
DurationEnds(s, p) ==
    {e \in (p + 1)..(Len(s) + 1) : AtEnd(s, e) /\ Digits(s, p, e)}

\* .*?" (duration)$ from p: the places of the closing quote
CloseQuotes(s, p) ==
    {q \in p..Len(s) : /\ s[q] = "\""
                       /\ At(s, q + 1) = " "
                       /\ Dots(s, p, q)
                       /\ DurationEnds(s, q + 2) # {}}

\* (?P<url>\S+) from p and the rest: the ends of the url
UrlEnds(s, p) ==
    {e \in (p + 1)..(Len(s) + 1) : NonSpaces(s, p, e) /\ CloseQuotes(s, e) # {}}

\* "(?P<method>...) at q, followed by a space and the rest: the alternatives
MethodsAt(s, q) ==
    {m \in 1..Len(METHODS) :
        /\ At(s, q) = "\""
        /\ q + Len(METHODS[m]) <= Len(s)
        /\ SubSeq(s, q + 1, q + Len(METHODS[m])) = METHODS[m]
        /\ At(s, q + Len(METHODS[m]) + 1) = " "
        /\ UrlEnds(s, q + Len(METHODS[m]) + 2) # {}}

\* .*?"METHOD ... from p: the places of the opening quote
OpenQuotes(s, p) ==
    {q \in p..Len(s) : s[q] = "\"" /\ Dots(s, p, q) /\ MethodsAt(s, q) # {}}

\* (?P<date>.*?)\] from p and the rest: the places of the closing bracket
DateEnds(s, p) ==
    {r \in p..Len(s) : s[r] = "]" /\ Dots(s, p, r) /\ OpenQuotes(s, r + 1) # {}}

\* .*?\[ from p and the rest: the places of the opening bracket
Brackets(s, p) ==
    {b \in p..Len(s) : s[b] = "[" /\ Dots(s, p, b) /\ DateEnds(s, b + 1) # {}}

\* \d{1,3}\.\d{1,3}\.\d{1,3}\.\d{1,3} at i: the octet lengths <<a, b, c, d>>
\* with which the rest of the pattern can still be matched
IpShapes(s, i) ==
    {o \in (1..3) \X (1..3) \X (1..3) \X (1..3) :
        LET p2 == i + o[1] + 1
            p3 == p2 + o[2] + 1
            p4 == p3 + o[3] + 1
        IN  /\ Digits(s, i, i + o[1]) /\ At(s, p2 - 1) = "."
            /\ Digits(s, p2, p2 + o[2]) /\ At(s, p3 - 1) = "."
            /\ Digits(s, p3, p3 + o[3]) /\ At(s, p4 - 1) = "."
            /\ Digits(s, p4, p4 + o[4])
            /\ Brackets(s, p4 + o[4]) # {}}

\* a greedy \d{1,3} is tried longest first, the first octet decided first
Prefer(o1, o2) ==
    \E k \in 1..4 : o1[k] > o2[k] /\ \A j \in 1..(k - 1) : o1[j] = o2[j]

\* the start positions at which LOG_PATTERN matches
Starts(s) == {i \in 1..Len(s) : IsDigit(s[i]) /\ IpShapes(s, i) # {}}

\* LOG_PATTERN.search(line) is not None
Matches(s) == Starts(s) # {}

RECURSIVE ToInt(_)
\* int(digits)
ToInt(chars) ==
    IF chars = <<>> THEN 0
    ELSE 10 * ToInt(SubSeq(chars, 1, Len(chars) - 1))
         + (CHOOSE v \in 0..9 :
               <<"0", "1", "2", "3", "4", "5", "6", "7", "8", "9">>[v + 1]
                   = chars[Len(chars)])

\* The groups of the match re.search returns: the leftmost start, and at each
\* quantifier, in pattern order, the first choice (longest for a greedy one,
\* shortest for a lazy one) from which the rest of the pattern still matches.
LOG_PATTERN(s) ==
    LET i == SetMin(Starts(s))
        o == CHOOSE x \in IpShapes(s, i) :
                 \A y \in IpShapes(s, i) \ {x} : Prefer(x, y)
        ipEnd == i + o[1] + o[2] + o[3] + o[4] + 3
        lb == SetMin(Brackets(s, ipEnd))
        rb == SetMin(DateEnds(s, lb + 1))
        oq == SetMin(OpenQuotes(s, rb + 1))
        m == SetMin(MethodsAt(s, oq))
        urlStart == oq + Len(METHODS[m]) + 2
        urlEnd == SetMax(UrlEnds(s, urlStart))
        cq == SetMin(CloseQuotes(s, urlEnd))
        durEnd == SetMax(DurationEnds(s, cq + 2))
    IN  [ip |-> Text(s, i, ipEnd),
         date |-> Text(s, lb + 1, rb),
         method |-> Join(METHODS[m]),
         url |-> Text(s, urlStart, urlEnd),
         duration |-> SubSeq(s, cq + 2, durEnd - 1)]

\* LogEntry(...)
LogEntry(ip, method, url, date, duration) ==
    [ip |-> ip, method |-> method, url |-> url, date |-> date,
     duration |-> duration]

\* LogParser.parse_line: <<>> for None
parse_line(s) ==
    IF ~Matches(s) THEN <<>>
    ELSE LET data == LOG_PATTERN(s)
         IN  <<LogEntry(data.ip, data.method, data.url, data.date,
                        ToInt(data.duration))>>

----------------------------------------------------------------------------
(* The accumulator: LogParser.__init__, process_entry, get_top_ips,         *)
(* save_results                                                             *)

\* the capacity of slow_requests (the 3 of `< 3` and `[:3]`)
SLOW_LIMIT == 3
\* the default n of get_top_ips
DEFAULT_N == 3

\* LogParser(): the freshly constructed accumulator
NewLogParser ==
    [total_requests |-> 0, method_counts |-> <<>>, ip_counts |-> <<>>,
     slow_requests |-> <<>>]

\* a variant of Increment that stores 1 instead of adding 1
IncrementOverwrite(d, key) ==
    IF \E i \in 1..Len(d) : d[i][1] = key
    THEN [i \in 1..Len(d) |-> IF d[i][1] = key THEN <<d[i][1], 1>> ELSE d[i]]
    ELSE Append(d, <<key, 1>>)

\* d[key] += 1 on a defaultdict(int): a new key is appended with count 1
Increment(d, key) ==
    IF \E i \in 1..Len(d) : d[i][1] = key
    THEN [i \in 1..Len(d) |->
             IF d[i][1] = key THEN <<d[i][1], d[i][2] + 1>> ELSE d[i]]
    ELSE Append(d, <<key, 1>>)

\* sorted(seq, key=..., reverse=True), keys[i] being the key of seq[i]:
\* descending and stable, so the element at i comes after those with a larger
\* key and those before it with an equal one
SortedDesc(seq, keys) ==
    LET n == Len(seq)
        rank == [i \in 1..n |->
                    Cardinality({j \in 1..n :
                        keys[j] > keys[i] \/ (keys[j] = keys[i] /\ j < i)}) + 1]
    IN  [p \in 1..n |-> seq[CHOOSE i \in 1..n : rank[i] = p]]

\* a variant of Slice that keeps the last n elements (seq[-n:])
SliceLast(seq, n) == SubSeq(seq, Max2(1, Len(seq) - n + 1), Len(seq))

\* seq[:n]
Slice(seq, n) ==
    IF n >= 0 THEN SubSeq(seq, 1, Min2(n, Len(seq)))
    ELSE SubSeq(seq, 1, Max2(Len(seq) + n, 0))

\* key=lambda x: x.duration, and key=lambda x: x[1], on each element
EntryDurations(es) == [i \in 1..Len(es) |-> es[i].duration]
ItemCounts(items) == [i \in 1..Len(items) |-> items[i][2]]

\* a variant of Admits that compares with the first (largest) kept entry
AdmitsFirst(slow, e) ==
    Len(slow) < SLOW_LIMIT \/ e.duration > slow[1].duration

\* the condition under which process_entry appends the entry to slow_requests
Admits(slow, e) ==
    Len(slow) < SLOW_LIMIT \/ e.duration > slow[Len(slow)].duration

\* a variant of UpdateSlow that forgets to sort
UpdateSlowNoSort(slow, e) ==
    IF Admits(slow, e) THEN Slice(Append(slow, e), SLOW_LIMIT) ELSE slow

\* a variant of UpdateSlow that inserts the entry at the front before sorting
UpdateSlowPrepend(slow, e) ==
    IF Admits(slow, e)
    THEN Slice(SortedDesc(<<e>> \o slow, EntryDurations(<<e>> \o slow)),
               SLOW_LIMIT)
    ELSE slow

\* what process_entry does to slow_requests
UpdateSlow(slow, e) ==
    IF Admits(slow, e)
    THEN Slice(SortedDesc(Append(slow, e), EntryDurations(Append(slow, e))),
               SLOW_LIMIT)
    ELSE slow

\* LogParser.process_entry
process_entry(self, e) ==
    [total_requests |-> self.total_requests + 1,
     method_counts |-> Increment(self.method_counts, e.method),
     ip_counts |-> Increment(self.ip_counts, e.ip),
     slow_requests |-> UpdateSlow(self.slow_requests, e)]

\* a variant of get_top_ips that forgets to sort
get_top_ips_unsorted(self, n) == Slice(self.ip_counts, n)

\* LogParser.get_top_ips
get_top_ips(self, n) ==
    Slice(SortedDesc(self.ip_counts, ItemCounts(self.ip_counts)), n)

\* the result object save_results builds, prints and dumps
Result(self) ==
    [total_requests |-> self.total_requests,
     method_counts |-> self.method_counts,
     top_ips |-> get_top_ips(self, DEFAULT_N),
     slow_requests |->
         [i \in 1..Len(self.slow_requests) |->
             LET e == self.slow_requests[i]
             IN  [ip |-> e.ip, method |-> e.method, url |-> e.url,
                  date |-> e.date, duration |-> e.duration]]]

RECURSIVE ProcessAll(_, _)
\* process_entry called on each entry of es in turn
ProcessAll(self, es) ==
    IF es = <<>> THEN self
    ELSE ProcessAll(process_entry(self, Head(es)), Tail(es))

----------------------------------------------------------------------------
(* The environment: sample lines, file names and command lines              *)

\* 1.2.3.4 - - [10/Oct/2020:13:55:36] "GET /index.html HTTP/1.1" 200 150
\* (the status token 200 stands between the closing quote and the duration; the last line of a file, without a newline)
LineSpec ==
    <<"1", ".", "2", ".", "3", ".", "4", " ", "-", " ", "-", " ", "[", "1",
      "0", "/", "O", "c", "t", "/", "2", "0", "2", "0", ":", "1", "3", ":",
      "5", "5", ":", "3", "6", "]", " ", "\"", "G", "E", "T", " ", "/", "i",
      "n", "d", "e", "x", ".", "h", "t", "m", "l", " ", "H", "T", "T", "P",
      "/", "1", ".", "1", "\"", " ", "2", "0", "0", " ", "1", "5", "0">>

\* 1.2.3.4 - - [10/Oct/2020:13:55:36] "GET /index.html HTTP/1.1" 150\n
\* (the duration follows the closing quote directly)
LineGet ==
    <<"1", ".", "2", ".", "3", ".", "4", " ", "-", " ", "-", " ", "[", "1",
      "0", "/", "O", "c", "t", "/", "2", "0", "2", "0", ":", "1", "3", ":",
      "5", "5", ":", "3", "6", "]", " ", "\"", "G", "E", "T", " ", "/", "i",
      "n", "d", "e", "x", ".", "h", "t", "m", "l", " ", "H", "T", "T", "P",
      "/", "1", ".", "1", "\"", " ", "1", "5", "0", "\n">>

\* x1234.5.6.7890 [a]b] "PUT /x" "POST /y z" 007\n
\* (long digit runs, two brackets, two quoted requests, leading zeros)
LinePut ==
    <<"x", "1", "2", "3", "4", ".", "5", ".", "6", ".", "7", "8", "9", "0",
      " ", "[", "a", "]", "b", "]", " ", "\"", "P", "U", "T", " ", "/", "x",
      "\"", " ", "\"", "P", "O", "S", "T", " ", "/", "y", " ", "z", "\"",
      " ", "0", "0", "7", "\n">>

\* 10.0.0.7 [d] "PATCH /a" 20\n
\* (a method outside the alternation)
LinePatch ==
    <<"1", "0", ".", "0", ".", "0", ".", "7", " ", "[", "d", "]", " ", "\"",
      "P", "A", "T", "C", "H", " ", "/", "a", "\"", " ", "2", "0", "\n">>

\* 10.0.0.7 [d] "POST /a" 20
\* (a matching last line of a file, without a newline)
LinePost ==
    <<"1", "0", ".", "0", ".", "0", ".", "7", " ", "[", "d", "]", " ", "\"",
      "P", "O", "S", "T", " ", "/", "a", "\"", " ", "2", "0">>

\* 10.0.0.7 [d] "POST /a"20\n
\* (no space between the closing quote and the duration)
LineNoSpace ==
    <<"1", "0", ".", "0", ".", "0", ".", "7", " ", "[", "d", "]", " ", "\"",
      "P", "O", "S", "T", " ", "/", "a", "\"", "2", "0", "\n">>

\* the lines a log file may hold
Lines == {LineSpec, LineGet, LinePut, LinePatch, LinePost, LineNoSpace}

NameA == <<"a", ".", "l", "o", "g">>
NameB == <<"b", ".", "l", "o", "g">>
NameSys == <<"s", "y", "s", "l", "o", "g">>
\* the names a directory may hold
Names == {NameA, NameB, NameSys}

\* the suffix main looks for in directory mode
LOG_SUFFIX == <<".", "l", "o", "g">>

\* str.endswith
EndsWith(name, suffix) ==
    /\ Len(name) >= Len(suffix)
    /\ SubSeq(name, Len(name) - Len(suffix) + 1, Len(name)) = suffix

\* the file system: one regular file, one directory, nothing else
FilePath == "access.log"
DirPath == "logs"
IsFile(path) == path = FilePath           \* os.path.isfile
IsDir(path) == path = DirPath             \* os.path.isdir
PathJoin(dir, name) == dir \o "/" \o Join(name)   \* os.path.join

\* the command lines: args.input, and args.output ("" when -o is not given)
InputPaths == {FilePath, DirPath, "missing"}
OutputPaths == {"", "out.json"}

\* at most this many lines in a file, and entries in the directory
MaxLines == 2
MaxFiles == 3

\* parse_line and LOG_PATTERN.search on the sample lines, computed once
ParsedLines == [l \in Lines |-> parse_line(l)]
MatchingLines == {l \in Lines : Matches(l)}

\* the message of the else branch (in Russian in the source: "error: an
\* invalid path was given")
ERROR_MESSAGE == "error: invalid path"

----------------------------------------------------------------------------
(* The program: main and the __main__ guard                                 *)

Init ==
    /\ analyzer = NewLogParser
    /\ args \in [input : InputPaths, output : OutputPaths]
    /\ pc = "main"
    /\ listed = <<>>
    /\ cur = <<>>
    /\ nread = 0
    /\ line = <<>>
    /\ entry = <<>>
    /\ stdout = <<>>
    /\ written = <<>>
    /\ main_ret = <<>>
    /\ exit_code = <<>>
    /\ matched = 0
    /\ analyzed = <<>>
    /\ processed = <<>>
    /\ ret = <<>>

\* analyze_file(path) is entered: the file is opened
Open(path) ==
    /\ cur' = <<path>>
    /\ nread' = 0
    /\ analyzed' = Append(analyzed, path)
    /\ pc' = "analyze"

\* main, os.path.isfile(args.input)
MainFile ==
    /\ pc = "main"
    /\ IsFile(args.input)
    /\ Open(args.input)
    /\ UNCHANGED <<analyzer, args, listed, line, entry, stdout, written,
                   main_ret, exit_code, matched, processed, ret>>

\* main, os.path.isdir(args.input)
MainDir ==
    /\ pc = "main"
    /\ ~IsFile(args.input)
    /\ IsDir(args.input)
    /\ pc' = "listdir"
    /\ UNCHANGED <<analyzer, args, listed, cur, nread, line, entry, stdout,
                   written, main_ret, exit_code, matched, analyzed, processed,
                   ret>>

\* main, the else branch: print the error and return 1
MainInvalid ==
    /\ pc = "main"
    /\ ~IsFile(args.input)
    /\ ~IsDir(args.input)
    /\ stdout' = Append(stdout, ERROR_MESSAGE)
    /\ main_ret' = <<1>>
    /\ pc' = "returned"
    /\ UNCHANGED <<analyzer, args, listed, cur, nread, line, entry, written,
                   exit_code, matched, analyzed, processed, ret>>

\* a variant of analyze_line that counts a line it could not parse
analyze_line_counting(self, parsed) ==
    IF parsed # <<>> THEN process_entry(self, parsed[1])
    ELSE [self EXCEPT !.total_requests = @ + 1]

\* the body of analyze_file's loop for one line
analyze_line(self, parsed) ==
    IF parsed # <<>> THEN process_entry(self, parsed[1]) ELSE self

\* analyze_file: one iteration of `for line in f`.  Only the last line of a
\* file can lack its newline.
ReadLine(l) ==
    /\ pc = "analyze"
    /\ nread < MaxLines
    /\ nread > 0 => line[Len(line)] = "\n"
    /\ line' = l
    /\ entry' = ParsedLines[l]
    /\ analyzer' = analyze_line(analyzer, ParsedLines[l])
    /\ nread' = nread + 1
    /\ matched' = IF l \in MatchingLines THEN matched + 1 ELSE matched
    /\ UNCHANGED <<args, pc, listed, cur, stdout, written, main_ret,
                   exit_code, analyzed, processed, ret>>

\* analyze_file: the file is exhausted and closed
EndOfFile ==
    /\ pc = "analyze"
    /\ cur' = <<>>
    /\ pc' = IF IsFile(args.input) THEN "save" ELSE "listdir"
    /\ UNCHANGED <<analyzer, args, listed, nread, line, entry, stdout, written,
                   main_ret, exit_code, matched, analyzed, processed, ret>>

\* a variant of IsLogName that looks for "log" without the dot
IsLogNameNoDot(name) == EndsWith(name, <<"l", "o", "g">>)

\* main: the test that selects a directory entry for analysis
IsLogName(name) == EndsWith(name, LOG_SUFFIX)

\* main: one iteration of `for filename in os.listdir(args.input)`
NextName(name) ==
    /\ pc = "listdir"
    /\ Len(listed) < MaxFiles
    /\ \A i \in 1..Len(listed) : listed[i] # name
    /\ listed' = Append(listed, name)
    /\ IF IsLogName(name)
       THEN Open(PathJoin(args.input, name))
       ELSE UNCHANGED <<pc, cur, nread, analyzed>>
    /\ UNCHANGED <<analyzer, args, line, entry, stdout, written, main_ret,
                   exit_code, matched, processed, ret>>

\* main: the listing is exhausted
EndOfListing ==
    /\ pc = "listdir"
    /\ pc' = "save"
    /\ UNCHANGED <<analyzer, args, listed, cur, nread, line, entry, stdout,
                   written, main_ret, exit_code, matched, analyzed, processed,
                   ret>>

\* main: args.output or the default of the mode
OutputPath ==
    IF args.output # "" THEN args.output
    ELSE IF IsFile(args.input) THEN args.input \o ".json"
    ELSE "logs_analysis.json"

\* save_results(output_path), after which main falls off its end
SaveResults ==
    /\ pc = "save"
    /\ stdout' = Append(stdout, Result(analyzer))
    /\ written' = Append(written, [path |-> OutputPath,
                                   result |-> Result(analyzer)])
    /\ main_ret' = <<>>
    /\ pc' = "returned"
    /\ UNCHANGED <<analyzer, args, listed, cur, nread, line, entry, exit_code,
                   matched, analyzed, processed, ret>>

\* the __main__ guard calls main() and drops its value: the script ends and
\* the interpreter exits with status 0
ExitStatus(returned) == 0

Exit ==
    /\ pc = "returned"
    /\ exit_code' = <<ExitStatus(main_ret)>>
    /\ pc' = "exited"
    /\ UNCHANGED <<analyzer, args, listed, cur, nread, line, entry, stdout,
                   written, main_ret, matched, analyzed, processed, ret>>

Next ==
    \/ MainFile
    \/ MainDir
    \/ MainInvalid
    \/ \E l \in Lines : ReadLine(l)
    \/ EndOfFile
    \/ \E name \in Names : NextName(name)
    \/ EndOfListing
    \/ SaveResults
    \/ Exit

Spec == Init /\ [][Next]_vars

----------------------------------------------------------------------------
(* The accumulator driven directly: process_entry called on any records     *)

\* the records a direct caller may pass
AccIPs == {"10.0.0.1", "10.0.0.2"}
AccMethods == {"GET", "POST"}
Durations == {10, 20, 25, 30}
Entries ==
    {LogEntry(ip, method, "/", "d", duration) :
        ip \in AccIPs, method \in AccMethods, duration \in Durations}

\* at most this many records are processed
MaxRecords == 4

\* the variables of main's run, which a direct caller does not touch
Idle ==
    /\ args = [input |-> "", output |-> ""]
    /\ pc = "api"
    /\ listed = <<>>
    /\ cur = <<>>
    /\ nread = 0
    /\ line = <<>>
    /\ entry = <<>>
    /\ stdout = <<>>
    /\ written = <<>>
    /\ main_ret = <<>>
    /\ exit_code = <<>>
    /\ matched = 0
    /\ analyzed = <<>>

InitAcc ==
    /\ analyzer = NewLogParser
    /\ processed = <<>>
    /\ ret = <<>>
    /\ Idle

\* analyzer.process_entry(e)
Process(e) ==
    /\ pc = "api"
    /\ analyzer' = process_entry(analyzer, e)
    /\ processed' = Append(processed, e)
    /\ UNCHANGED <<args, pc, listed, cur, nread, line, entry, stdout, written,
                   main_ret, exit_code, matched, analyzed, ret>>

NextAcc == \E e \in Entries : Len(processed) < MaxRecords /\ Process(e)

SpecAcc == InitAcc /\ [][NextAcc]_vars

----------------------------------------------------------------------------
(* The same, on fewer records, for comparing the orders of processing       *)

\* two clients, each with its IP and method, and two durations
OrderClients == {<<"10.0.0.1", "GET">>, <<"10.0.0.2", "POST">>}
OrderDurations == {10, 20}
OrderEntries ==
    {LogEntry(c[1], c[2], "/", "d", duration) :
        c \in OrderClients, duration \in OrderDurations}

\* at most this many records are processed
MaxOrderLen == 4

NextOrder ==
    \E e \in OrderEntries : Len(processed) < MaxOrderLen /\ Process(e)

SpecOrder == InitAcc /\ [][NextOrder]_vars

----------------------------------------------------------------------------
(* get_top_ips called directly, on an accumulator that has counted IPs      *)

TopIPs == {"10.0.0.1", "10.0.0.2", "10.0.0.3", "10.0.0.4"}

\* an IP is seen at most this many times, and n is at most this
MaxCount == 5
MaxN == 4

\* the dicts ip_counts can be: distinct IPs in first-seen order, with counts
CountDicts ==
    {d \in UNION {[1..k -> TopIPs \X (1..MaxCount)] :
                     k \in 0..Cardinality(TopIPs)} :
        \A i, j \in 1..Len(d) : i # j => d[i][1] # d[j][1]}

RECURSIVE Repeat(_, _)
Repeat(e, n) == IF n = 0 THEN <<>> ELSE <<e>> \o Repeat(e, n - 1)

RECURSIVE HistoryOf(_)
\* a sequence of records whose processing leaves ip_counts = d
HistoryOf(d) ==
    IF d = <<>> THEN <<>>
    ELSE Repeat(LogEntry(d[1][1], "GET", "/", "d", 10), d[1][2])
         \o HistoryOf(Tail(d))

InitTop ==
    /\ \E d \in CountDicts :
          /\ processed = HistoryOf(d)
          /\ analyzer = ProcessAll(NewLogParser, HistoryOf(d))
    /\ ret = <<>>
    /\ Idle

\* analyzer.get_top_ips(n); the call changes nothing it reads, and one call
\* in a run is modelled
GetTopIps(n) ==
    /\ pc = "api"
    /\ ret = <<>>
    /\ ret' = <<[n |-> n, top |-> get_top_ips(analyzer, n)]>>
    /\ UNCHANGED <<analyzer, args, pc, listed, cur, nread, line, entry, stdout,
                   written, main_ret, exit_code, matched, analyzed, processed>>

NextTop == \E n \in 0..MaxN : GetTopIps(n)

SpecTop == InitTop /\ [][NextTop]_vars

----------------------------------------------------------------------------
(* Properties                                                               *)

RECURSIVE SumCounts(_)
\* sum(d.values())
SumCounts(d) == IF d = <<>> THEN 0 ELSE d[1][2] + SumCounts(Tail(d))

\* a dict as a mapping: the set of its items
AsMapping(d) == {d[i] : i \in 1..Len(d)}

\* the durations of a sequence of records
DurationsOf(es) == [i \in 1..Len(es) |-> es[i].duration]

NonIncreasing(ns) == \A i, j \in 1..Len(ns) : i < j => ns[i] >= ns[j]

Occurrences(ns, v) == Cardinality({i \in 1..Len(ns) : ns[i] = v})

\* C1: after process_entry has been called on N records, starting from a
\* fresh accumulator, total_requests = N, the values of method_counts sum to
\* N and the values of ip_counts sum to N.
C1_CountsEqualN ==
    LET N == Len(processed)
    IN  /\ analyzer.total_requests = N
        /\ SumCounts(analyzer.method_counts) = N
        /\ SumCounts(analyzer.ip_counts) = N

\* several records, of both methods and both IPs, one IP seen twice
C1_Witness ==
    /\ Len(processed) = 3
    /\ Len(analyzer.method_counts) = 2
    /\ analyzer.ip_counts = <<<<"10.0.0.2", 2>>, <<"10.0.0.1", 1>>>>
    /\ analyzer.total_requests = 3

\* C2: slow_requests holds min(3, records processed) entries, in
\* non-increasing order of duration.
C2_SlowLengthAndOrder ==
    /\ Len(analyzer.slow_requests) = Min2(3, Len(processed))
    /\ NonIncreasing(DurationsOf(analyzer.slow_requests))

\* a fourth record has displaced a kept one
C2_Witness ==
    /\ Len(processed) = 4
    /\ Len(analyzer.slow_requests) = 3
    /\ processed[4] = analyzer.slow_requests[1]
    /\ analyzer.slow_requests[1].duration > analyzer.slow_requests[3].duration

\* C3: the durations held in slow_requests are the 3 largest durations of the
\* records processed, with multiplicity, in descending order (all of them
\* when fewer than 3 were processed): of each duration v as many copies are
\* kept as the places left by the larger durations allow.
C3_SlowIsTopThree ==
    LET all == DurationsOf(processed)
        kept == DurationsOf(analyzer.slow_requests)
        Larger(v) == Cardinality({i \in 1..Len(all) : all[i] > v})
    IN  /\ NonIncreasing(kept)
        /\ \A v \in Durations :
              Occurrences(kept, v)
                  = Min2(Occurrences(all, v), Max2(0, 3 - Larger(v)))

\* durations 10, 20, 30, 25 in that order leave 30, 25, 20
C3_Witness ==
    /\ DurationsOf(processed) = <<10, 20, 30, 25>>
    /\ DurationsOf(analyzer.slow_requests) = <<30, 25, 20>>

\* C4: a record whose duration does not exceed that of the last of 3 kept
\* entries leaves slow_requests unchanged, and records that all have the same
\* duration are kept in arrival order, the first three of them.
C4_FirstSeenWins ==
    [][Len(processed') = Len(processed) + 1 =>
          LET e == processed'[Len(processed')]
              slow == analyzer.slow_requests
          IN  /\ (Len(slow) = 3 /\ e.duration <= slow[3].duration)
                     => analyzer'.slow_requests = slow
              /\ (\A i \in 1..Len(processed') :
                     processed'[i].duration = e.duration)
                     => analyzer'.slow_requests
                            = SubSeq(processed', 1, Min2(3, Len(processed')))
      ]_vars

\* four distinct records of one duration: the first three are kept
C4_Witness ==
    /\ Len(processed) = 4
    /\ \A i \in 1..4 : processed[i].duration = 20
    /\ \A i, j \in 1..4 : i # j => processed[i] # processed[j]
    /\ analyzer.slow_requests = SubSeq(processed, 1, 3)

\* the record the amended C5 expects
IndexRecord ==
    LogEntry("1.2.3.4", "GET", "/index.html", "10/Oct/2020:13:55:36", 150)

\* C5 as claimed: parse_line of the line with the status token 200 between
\* the closing quote and the duration returns the record with duration 150.
C5_StatusLineParses ==
    (nread > 0 /\ line = LineSpec) => entry = <<IndexRecord>>

\* C5 amended: parse_line returns no record for that line, and returns the
\* record for the same line without the status token, where the duration
\* follows the closing quote and one space.
C5_DurationFollowsQuote ==
    /\ (nread > 0 /\ line = LineSpec) => entry = <<>>
    /\ (nread > 0 /\ line = LineGet) => entry = <<IndexRecord>>

\* both lines have been read: the first gave the record, the second nothing
C5_Witness ==
    /\ nread = 2
    /\ line = LineSpec
    /\ entry = <<>>
    /\ analyzer.slow_requests = <<IndexRecord>>
    /\ analyzer.total_requests = 1

\* C6: a line that does not match the grammar yields no record and leaves
\* the accumulator unchanged, and when analyze_file is done total_requests is
\* the number of matching lines read.
C6_MismatchSkipped ==
    [][/\ (nread' = nread + 1 /\ line' \notin MatchingLines)
              => (entry' = <<>> /\ analyzer' = analyzer)
       /\ (pc = "analyze" /\ pc' # "analyze")
              => analyzer'.total_requests = matched'
      ]_vars

\* a file of a matching line and then a mismatching one has been analyzed
C6_Witness ==
    /\ pc = "save"
    /\ nread = 2
    /\ line \notin MatchingLines
    /\ entry = <<>>
    /\ matched = 1
    /\ analyzer.total_requests = 1

\* C7: with an input path that is neither a file nor a directory the run
\* prints an error, writes no file and exits with a non-zero status; any
\* other run exits with status 0.
C7_InvalidPathExitsNonZero ==
    pc = "exited" =>
        IF ~IsFile(args.input) /\ ~IsDir(args.input)
        THEN /\ stdout = <<ERROR_MESSAGE>>
             /\ written = <<>>
             /\ exit_code # <<0>>
        ELSE exit_code = <<0>>

\* C8: get_top_ips(n), n >= 0, returns min(n, number of distinct IPs) items
\* of ip_counts, of distinct IPs, in non-increasing order of count, and no
\* IP left out has a larger count than one returned.
C8_TopIps ==
    ret # <<>> =>
        LET n == ret[1].n
            top == ret[1].top
            d == analyzer.ip_counts
            ips == {d[k][1] : k \in 1..Len(d)}
        IN  /\ Len(top) = Min2(n, Cardinality(ips))
            /\ \A i \in 1..Len(top) : top[i] \in AsMapping(d)
            /\ \A i, j \in 1..Len(top) : i # j => top[i][1] # top[j][1]
            /\ NonIncreasing([i \in 1..Len(top) |-> top[i][2]])
            /\ \A item \in AsMapping(d) \ AsMapping(top) :
                  \A i \in 1..Len(top) : item[2] <= top[i][2]

\* {A: 5, B: 5, C: 2, D: 1} with n = 3: A and B, then C; D is left out
C8_Witness ==
    /\ ret # <<>>
    /\ ret[1].n = 3
    /\ AsMapping(analyzer.ip_counts)
           = {<<"10.0.0.1", 5>>, <<"10.0.0.2", 5>>, <<"10.0.0.3", 2>>,
              <<"10.0.0.4", 1>>}
    /\ analyzer.ip_counts[1] = <<"10.0.0.4", 1>>
    /\ {ret[1].top[1], ret[1].top[2]}
           = {<<"10.0.0.1", 5>>, <<"10.0.0.2", 5>>}
    /\ ret[1].top[3] = <<"10.0.0.3", 2>>

\* C9: in directory mode exactly the entries whose name ends in ".log" are
\* analyzed, each once, by the one accumulator; the summary is written once,
\* after the listing is exhausted, and its total_requests is the number of
\* matching lines of all of them (0, with empty lists, when there are none).
C9_DirectoryMode ==
    (~IsFile(args.input) /\ IsDir(args.input)) =>
        LET logs == SelectSeq(listed,
                        LAMBDA nm : EndsWith(nm, <<".", "l", "o", "g">>))
        IN  /\ analyzed = [i \in 1..Len(logs) |-> PathJoin(args.input, logs[i])]
            /\ Len(written) = (IF pc \in {"returned", "exited"} THEN 1 ELSE 0)
            /\ written # <<>> =>
                  /\ written[1].result.total_requests = matched
                  /\ analyzer.total_requests = matched
                  /\ analyzed = <<>> =>
                        written[1].result
                            = [total_requests |-> 0, method_counts |-> <<>>,
                               top_ips |-> <<>>, slow_requests |-> <<>>]

\* two .log files with matching lines in both, summed in the one summary,
\* and an entry of another name between them, passed over
C9_Witness ==
    /\ pc = "exited"
    /\ args.input = DirPath
    /\ listed = <<NameB, NameSys, NameA>>
    /\ analyzed = <<"logs/b.log", "logs/a.log">>
    /\ nread = 1
    /\ matched = 3
    /\ written[1].result.total_requests = 3

\* the permutations of 1..n
Orderings(n) ==
    {f \in [1..n -> 1..n] : \A i, j \in 1..n : i # j => f[i] # f[j]}
OrderingsUpTo == [n \in 0..MaxOrderLen |-> Orderings(n)]

\* what C10 compares of an accumulator
Statistics(self) ==
    [total_requests |-> self.total_requests,
     method_counts |-> AsMapping(self.method_counts),
     ip_counts |-> AsMapping(self.ip_counts),
     durations |-> DurationsOf(self.slow_requests)]

\* C10: processing the same records in any other order gives the same
\* total_requests, the same method_counts and ip_counts as mappings, and the
\* same sequence of durations in slow_requests.
C10_OrderIndependent ==
    \A f \in OrderingsUpTo[Len(processed)] :
        Statistics(ProcessAll(NewLogParser,
                              [i \in 1..Len(processed) |-> processed[f[i]]]))
            = Statistics(analyzer)

\* an order in which the kept records and the dict orders do differ
C10_Witness ==
    /\ Len(processed) = 4
    /\ \E f \in OrderingsUpTo[4] :
          LET other == ProcessAll(NewLogParser,
                                  [i \in 1..4 |-> processed[f[i]]])
          IN  /\ other.slow_requests # analyzer.slow_requests
              /\ other.ip_counts # analyzer.ip_counts
              /\ other.method_counts # analyzer.method_counts

====
